---- MODULE Spec2Model ----
(***************************************************************************)
(* Model of the task-tree state machine of im-back (tree-state.js, class   *)
(* TreeStateMachine), of the controller that serializes the commands on a  *)
(* promise chain (app-controller.js, class AppController) and of the store *)
(* that logs events and writes active.json (session-store.js, class        *)
(* SessionStore).                                                          *)
(*                                                                         *)
(* A TreeState is a record.  Every method of the machine is an operator    *)
(* from the state before the call to a Result: the error thrown (or        *)
(* NoError), the state the machine is left in, and the id returned.  A     *)
(* throw leaves the machine in the state it had at the throw.              *)
(*                                                                         *)
(* Ids are opaque: randomUUID is modelled by the least number the state    *)
(* does not refer to.  The node fields createdAt, updatedAt and deletedAt  *)
(* are written from the clock and read by no method; no command's outcome  *)
(* depends on them and the model leaves them out.                          *)
(***************************************************************************)
EXTENDS FiniteSets, Integers, Sequences, TLC

\* ------------------------------------------------------------------ bounds
\* ids a command can name, and the longest undo history a command extends
MaxNodes == 4
MaxUndoDepth == 3
\* the commands counted in a session at the history cap
MaxIssued == 202
\* the commands enqueued in a session, and the file operations that fail in it
MaxCommands == 3
MaxFaults == 1
MaxClock == 1
MaxRuns == 3

\* --------------------------------------------------------------- constants
MAX_HISTORY == 200
UNNAMED_TITLE == <<"U", "n", "t", "i", "t", "l", "e", "d", " ", "t", "a", "s", "k">>
SessionRootTitle == <<"S", "e", "s", "s", "i", "o", "n", " ", "R", "o", "o", "t">>

\* parentId: null of the root, and the undefined of a failed lookup
NullId == 0

NoError == "none"
NodeNotFound == "Node not found or inactive"
RootNodeProtected == "Root node cannot be deleted"

\* the ids a caller passes: ids of nodes, and ids no node has
Ids == 1 .. MaxNodes
\* the titles a caller passes: for a new node, and for a rename
NewTitles == { <<>> }
RenameTitles == { <<" ", "a", " ">> }

\* ------------------------------------------------------------ pure helpers
IsSpace(c) == c \in {" ", "\t", "\n"}

RECURSIVE trimStart(_)
trimStart(str) ==
  IF str = <<>> THEN <<>>
  ELSE IF IsSpace(Head(str)) THEN trimStart(Tail(str)) ELSE str

RECURSIVE trimEnd(_)
trimEnd(str) ==
  IF str = <<>> THEN <<>>
  ELSE IF IsSpace(str[Len(str)]) THEN trimEnd(SubSeq(str, 1, Len(str) - 1)) ELSE str

trim(str) == trimEnd(trimStart(str))

sanitizeTitle(title) ==
  LET next == trim(title)
  IN IF Len(next) > 0 THEN next ELSE UNNAMED_TITLE

\* mutant: the new node is created without its parent link
createNode_orphan(id, parentId, title) ==
  [ id |-> id, parentId |-> NullId, title |-> sanitizeTitle(title),
    childrenIds |-> <<>>, status |-> "active" ]

createNode(id, parentId, title) ==
  [ id |-> id,
    parentId |-> parentId,
    title |-> sanitizeTitle(title),
    childrenIds |-> <<>>,
    status |-> "active" ]

createInitialState(rootId) ==
  [ rootId |-> rootId,
    focusedNodeId |-> rootId,
    nodes |-> [i \in {rootId} |-> createNode(rootId, NullId, SessionRootTitle)],
    undoStack |-> <<>>,
    redoStack |-> <<>> ]

\* ------------------------------------------------------- TreeStateMachine
Result(error, s, value) == [error |-> error, state |-> s, value |-> value]

Range(seq) == {seq[i] : i \in DOMAIN seq}

\* the ids the state refers to, in the tree or in its history
UsedIds(s) ==
  DOMAIN s.nodes
    \cup UNION {DOMAIN s.undoStack[i].nodes : i \in DOMAIN s.undoStack}
    \cup UNION {DOMAIN s.redoStack[i].nodes : i \in DOMAIN s.redoStack}

\* an id no node has: the least number the state does not refer to
randomUUID(s) ==
  CHOOSE i \in 1 .. (Cardinality(UsedIds(s)) + 1) :
    /\ i \notin UsedIds(s)
    /\ \A j \in 1 .. (Cardinality(UsedIds(s)) + 1) : j \notin UsedIds(s) => i <= j

\* mutant: the snapshot keeps the tree and drops the focus
snapshot_noFocus(s) ==
  [ rootId |-> s.rootId, focusedNodeId |-> s.rootId, nodes |-> s.nodes ]

snapshot(s) ==
  [ rootId |-> s.rootId,
    focusedNodeId |-> s.focusedNodeId,
    nodes |-> s.nodes ]

ensureFocus(s) ==
  IF s.focusedNodeId \notin DOMAIN s.nodes
       \/ s.nodes[s.focusedNodeId].status # "active"
  THEN [s EXCEPT !.focusedNodeId = s.rootId]
  ELSE s

applySnapshot(s, snap) ==
  ensureFocus([s EXCEPT !.rootId = snap.rootId,
                        !.focusedNodeId = snap.focusedNodeId,
                        !.nodes = snap.nodes])

\* mutant: no cap on the undo stack
pushUndo_uncapped(s) ==
  [s EXCEPT !.undoStack = Append(s.undoStack, snapshot(s)), !.redoStack = <<>>]

\* mutant: at the cap the newest entry is dropped, not the oldest
pushUndo_dropNewest(s) ==
  LET pushed == Append(s.undoStack, snapshot(s))
      capped == IF Len(pushed) > MAX_HISTORY THEN s.undoStack ELSE pushed
  IN [s EXCEPT !.undoStack = capped, !.redoStack = <<>>]

\* mutant: the redo stack survives a new command
pushUndo_keepRedo(s) ==
  LET pushed == Append(s.undoStack, snapshot(s))
      capped == IF Len(pushed) > MAX_HISTORY THEN Tail(pushed) ELSE pushed
  IN [s EXCEPT !.undoStack = capped]

pushUndo(s) ==
  LET pushed == Append(s.undoStack, snapshot(s))
      capped == IF Len(pushed) > MAX_HISTORY THEN Tail(pushed) ELSE pushed
  IN [s EXCEPT !.undoStack = capped, !.redoStack = <<>>]

\* mutant: a soft-deleted node passes the check
assertNode_anyStatus(s, nodeId) == nodeId \in DOMAIN s.nodes

\* assertNode returns the node when this holds, and throws NodeNotFound otherwise
assertNode(s, nodeId) ==
  nodeId \in DOMAIN s.nodes /\ s.nodes[nodeId].status = "active"

\* mutant: the new id is put first among the parent's children
insertChild_prepend(s, parentId, title) ==
  LET id == randomUUID(s)
      node == createNode(id, parentId, title)
      stored == [i \in DOMAIN s.nodes \cup {id} |-> IF i = id THEN node ELSE s.nodes[i]]
      linked == [stored EXCEPT ![parentId].childrenIds = <<id>> \o @]
  IN [s EXCEPT !.nodes = linked, !.focusedNodeId = id]

\* addChild after pushUndo: the node is created, stored, linked and focused
insertChild(s, parentId, title) ==
  LET id == randomUUID(s)
      node == createNode(id, parentId, title)
      stored == [i \in DOMAIN s.nodes \cup {id} |-> IF i = id THEN node ELSE s.nodes[i]]
      linked == [stored EXCEPT ![parentId].childrenIds = Append(@, id)]
  IN [s EXCEPT !.nodes = linked, !.focusedNodeId = id]

addChild(s, parentId, title) ==
  IF ~assertNode(s, parentId) THEN Result(NodeNotFound, s, NullId)
  ELSE LET s1 == insertChild(pushUndo(s), parentId, title)
       IN Result(NoError, s1, s1.focusedNodeId)

\* mutant: the node is added below nodeId itself
addSibling_below(s, nodeId, title) ==
  IF ~assertNode(s, nodeId) THEN Result(NodeNotFound, s, NullId)
  ELSE addChild(s, nodeId, title)

addSibling(s, nodeId, title) ==
  IF ~assertNode(s, nodeId) THEN Result(NodeNotFound, s, NullId)
  ELSE LET parentId == IF s.nodes[nodeId].parentId = NullId
                       THEN s.rootId ELSE s.nodes[nodeId].parentId
       IN addChild(s, parentId, title)

\* mutant: the history is pushed before the node is checked
renameNode_pushFirst(s, nodeId, title) ==
  LET s1 == pushUndo(s)
  IN IF ~assertNode(s1, nodeId) THEN Result(NodeNotFound, s1, NullId)
     ELSE Result(NoError, [s1 EXCEPT !.nodes[nodeId].title = sanitizeTitle(title)], NullId)

renameNode(s, nodeId, title) ==
  IF ~assertNode(s, nodeId) THEN Result(NodeNotFound, s, NullId)
  ELSE LET s1 == pushUndo(s)
       IN Result(NoError, [s1 EXCEPT !.nodes[nodeId].title = sanitizeTitle(title)], NullId)

\* mutant: the focus moves without the node being checked
focusNode_unchecked(s, nodeId) ==
  Result(NoError, [s EXCEPT !.focusedNodeId = nodeId], NullId)

\* mutant: a change of focus is an undo entry
focusNode_pushUndo(s, nodeId) ==
  IF ~assertNode(s, nodeId) THEN Result(NodeNotFound, s, NullId)
  ELSE Result(NoError, [pushUndo(s) EXCEPT !.focusedNodeId = nodeId], NullId)

focusNode(s, nodeId) ==
  IF ~assertNode(s, nodeId) THEN Result(NodeNotFound, s, NullId)
  ELSE Result(NoError, [s EXCEPT !.focusedNodeId = nodeId], NullId)

\* the while loop of collectSubtree: stack is the worklist, all the result
RECURSIVE collectLoop(_, _, _)
collectLoop(s, stack, all) ==
  IF stack = <<>> THEN all
  ELSE LET currentId == stack[Len(stack)]
           rest == SubSeq(stack, 1, Len(stack) - 1)
       IN IF currentId = NullId THEN collectLoop(s, rest, all)
          ELSE IF currentId \notin DOMAIN s.nodes
                    \/ s.nodes[currentId].status # "active"
               THEN collectLoop(s, rest, all)
          ELSE collectLoop(s, rest \o s.nodes[currentId].childrenIds,
                           Append(all, currentId))

\* mutant: the children are not followed
collectSubtree_nodeOnly(s, nodeId) == <<nodeId>>

collectSubtree(s, nodeId) == collectLoop(s, <<nodeId>>, <<>>)

\* softDeleteInternal: every collected node is marked deleted
markDeleted(s, nodeIds) ==
  [s EXCEPT !.nodes = [i \in DOMAIN s.nodes |->
      IF i \in Range(nodeIds)
      THEN [s.nodes[i] EXCEPT !.status = "deleted"]
      ELSE s.nodes[i]]]

\* mutant: the focus goes to the root, whatever the parent
returnToParent_root(s, nodeId) ==
  LET parentId == IF s.nodes[nodeId].parentId = NullId
                  THEN s.rootId ELSE s.nodes[nodeId].parentId
  IN IF assertNode(s, parentId)
     THEN [s EXCEPT !.nodes[parentId].childrenIds = SelectSeq(@, LAMBDA childId : childId # nodeId),
                    !.focusedNodeId = s.rootId]
     ELSE [s EXCEPT !.focusedNodeId = s.rootId]

\* mutant: the parent keeps the node among its children
returnToParent_keepLink(s, nodeId) ==
  LET parentId == IF s.nodes[nodeId].parentId = NullId
                  THEN s.rootId ELSE s.nodes[nodeId].parentId
  IN IF parentId \in DOMAIN s.nodes /\ s.nodes[parentId].status = "active"
     THEN [s EXCEPT !.focusedNodeId = parentId]
     ELSE [s EXCEPT !.focusedNodeId = s.rootId]

\* softDeleteInternal: the node is detached from its parent, which gets the focus
returnToParent(s, nodeId) ==
  LET parentId == IF s.nodes[nodeId].parentId = NullId
                  THEN s.rootId ELSE s.nodes[nodeId].parentId
  IN IF parentId \in DOMAIN s.nodes /\ s.nodes[parentId].status = "active"
     THEN [s EXCEPT !.nodes[parentId].childrenIds = SelectSeq(@, LAMBDA childId : childId # nodeId),
                    !.focusedNodeId = parentId]
     ELSE [s EXCEPT !.focusedNodeId = s.rootId]

\* mutant: the root is not protected
softDeleteInternal_anyNode(s, nodeId) ==
  IF ~assertNode(s, nodeId) THEN Result(NodeNotFound, s, NullId)
  ELSE LET s1 == pushUndo(s)
           s2 == markDeleted(s1, collectSubtree(s1, nodeId))
           s3 == ensureFocus(returnToParent(s2, nodeId))
       IN Result(NoError, s3, s3.focusedNodeId)

softDeleteInternal(s, nodeId) ==
  IF ~assertNode(s, nodeId) THEN Result(NodeNotFound, s, NullId)
  ELSE IF nodeId = s.rootId THEN Result(RootNodeProtected, s, NullId)
  ELSE LET s1 == pushUndo(s)
           s2 == markDeleted(s1, collectSubtree(s1, nodeId))
           s3 == ensureFocus(returnToParent(s2, nodeId))
       IN Result(NoError, s3, s3.focusedNodeId)

completeNode(s, nodeId) == softDeleteInternal(s, nodeId)

\* mutant: deleteNode removes the node from the map instead of soft-deleting it
deleteNode_hard(s, nodeId) ==
  LET r == softDeleteInternal(s, nodeId)
  IN IF r.error # NoError THEN r
     ELSE Result(NoError,
                 [r.state EXCEPT !.nodes = [i \in DOMAIN r.state.nodes \ {nodeId} |-> r.state.nodes[i]]],
                 r.value)

deleteNode(s, nodeId) == softDeleteInternal(s, nodeId)

\* mutant: undo() with nothing to undo leaves an entry to redo
undo_recordsRedo(s) ==
  IF Len(s.undoStack) = 0
  THEN Result(NoError, [s EXCEPT !.redoStack = Append(@, snapshot(s))], NullId)
  ELSE LET previous == s.undoStack[Len(s.undoStack)]
           popped == [s EXCEPT !.undoStack = SubSeq(@, 1, Len(@) - 1),
                               !.redoStack = Append(@, snapshot(s))]
       IN Result(NoError, applySnapshot(popped, previous), NullId)

undo(s) ==
  IF Len(s.undoStack) = 0 THEN Result(NoError, s, NullId)
  ELSE LET previous == s.undoStack[Len(s.undoStack)]
           popped == [s EXCEPT !.undoStack = SubSeq(@, 1, Len(@) - 1),
                               !.redoStack = Append(@, snapshot(s))]
       IN Result(NoError, applySnapshot(popped, previous), NullId)

\* mutant: redo() leaves the entry it applies on the redo stack
redo_keepEntry(s) ==
  IF Len(s.redoStack) = 0 THEN Result(NoError, s, NullId)
  ELSE LET next == s.redoStack[Len(s.redoStack)]
           pushed == [s EXCEPT !.undoStack = Append(@, snapshot(s))]
       IN Result(NoError, applySnapshot(pushed, next), NullId)

redo(s) ==
  IF Len(s.redoStack) = 0 THEN Result(NoError, s, NullId)
  ELSE LET next == s.redoStack[Len(s.redoStack)]
           popped == [s EXCEPT !.redoStack = SubSeq(@, 1, Len(@) - 1),
                               !.undoStack = Append(@, snapshot(s))]
       IN Result(NoError, applySnapshot(popped, next), NullId)

\* ---------------------------------------------------------- AppController
\* an appendEvent call: the action and the details passed
Event(action, nodeId, parentId, title, extra) ==
  [ action |-> action, nodeId |-> nodeId, parentId |-> parentId,
    title |-> title, extra |-> extra ]

\* the two events the task of completeNode / deleteNode logs around the
\* machine's call; a throw of the machine ends the task before any of them
softDeleteEvents(action, before, nodeId, r) ==
  IF r.error # NoError THEN <<>>
  ELSE LET known == nodeId \in DOMAIN before.nodes
           after == r.state
           focusKnown == r.value \in DOMAIN after.nodes
       IN << Event(action, nodeId,
                   IF known /\ before.nodes[nodeId].parentId # NullId
                   THEN before.nodes[nodeId].parentId ELSE NullId,
                   IF known THEN before.nodes[nodeId].title ELSE <<>>,
                   r.value),
             Event("RETURN_PARENT", r.value,
                   IF focusKnown /\ after.nodes[r.value].parentId # NullId
                   THEN after.nodes[r.value].parentId ELSE NullId,
                   IF focusKnown THEN after.nodes[r.value].title ELSE <<>>,
                   NullId) >>

ControllerCompleteNode(s, nodeId) ==
  LET r == completeNode(s, nodeId)
  IN [ result |-> r, events |-> softDeleteEvents("COMPLETE_NODE", s, nodeId, r) ]

ControllerDeleteNode(s, nodeId) ==
  LET r == deleteNode(s, nodeId)
  IN [ result |-> r, events |-> softDeleteEvents("DELETE_NODE", s, nodeId, r) ]

\* ----------------------------------------------------------- SessionStore
\* pendingState is a sequence: empty for null, one state otherwise.  timers
\* counts the setTimeout callbacks armed and neither fired nor cleared;
\* flushTimer tells whether this.flushTimer holds a handle.

\* a file: absent is <<>>, present is <<File(..)>>; a file opened for writing
\* and not written to its end yet is not complete
File(complete, data) == [complete |-> complete, data |-> data]

\* mutant: the log file is written, not appended to
appendEvent_overwrite(lines, line) == <<line>>

\* appendEvent: fs.appendFile of the line built from the action and the details
appendEvent(lines, line) == Append(lines, line)

\* mutant: every call arms a timer
scheduleStateWrite_rearm(st, s) ==
  [st EXCEPT !.pendingState = <<s>>, !.flushTimer = TRUE, !.timers = @ + 1]

\* scheduleStateWrite(state): replace the payload, arm a timer if none is held
scheduleStateWrite(st, s) ==
  LET replaced == [st EXCEPT !.pendingState = <<s>>]
  IN IF st.flushTimer THEN replaced
     ELSE [replaced EXCEPT !.flushTimer = TRUE, !.timers = @ + 1]

\* the setTimeout callback up to its await: the store it leaves, and the
\* state it passes to writeStateNow (none when pendingState was null)
flushTimerCallback(st) ==
  [ store |-> [st EXCEPT !.flushTimer = FALSE, !.timers = @ - 1, !.pendingState = <<>>],
    write |-> st.pendingState ]

\* flushPendingState up to its await: the store it leaves, and the state it
\* passes to writeStateNow (none when it returns at once)
flushPendingState(st) ==
  LET cleared == IF st.flushTimer
                 THEN [st EXCEPT !.flushTimer = FALSE, !.timers = @ - 1]
                 ELSE st
  IN [ store |-> [cleared EXCEPT !.pendingState = <<>>],
       write |-> st.pendingState ]

\* a writeStateNow(data) call: by is the task that awaits it, 0 for the timer
\* callback; fd is where the file it opened is now
Writer(by, data) == [by |-> by, data |-> data, pc |-> "open", fd |-> "none"]

\* rename(tmp, active) succeeds: the file at tmp is the file at active now,
\* and the file that was at active is gone
renamed(d) == [tmp |-> <<>>, active |-> d.tmp]
renamedFd(fd) == IF fd = "tmp" THEN "active" ELSE IF fd = "active" THEN "gone" ELSE fd

\* rm(active, force)
removed(d) == [d EXCEPT !.active = <<>>]
removedFd(fd) == IF fd = "active" THEN "gone" ELSE fd

\* ----------------------------------------------------- AppController.queue
SessionCommands == {"saveSession", "shutdown"}

Task(cmd, arg) ==
  [ cmd |-> cmd, arg |-> arg, pc |-> "pending", error |-> NoError,
    events |-> <<>>, next |-> 1, failed |-> {} ]

settled(t) == t.pc \in {"fulfilled", "rejected"}

\* mutant: the task is run at once, not chained
thenReady_unchained(q, i) == q[i].pc = "pending"

\* mutant: this.queue.then(task), chained on success only
thenReady_onFulfilled(q, i) ==
  q[i].pc = "pending" /\ (IF i = 1 THEN TRUE ELSE q[i - 1].pc = "fulfilled")

\* this.queue.then(task, task): the task runs once the promise before it has
\* settled either way; the first one is chained on Promise.resolve()
thenReady(q, i) == q[i].pc = "pending" /\ (IF i = 1 THEN TRUE ELSE settled(q[i - 1]))

\* the task of addChild up to its first await
ControllerAddChild(s, parentId, title) ==
  LET r == addChild(s, parentId, title)
      node == r.state.nodes[r.value]
  IN [ result |-> r,
       events |-> IF r.error # NoError THEN <<>>
                  ELSE <<Event("ADD_CHILD", node.id, node.parentId, node.title, NullId)>> ]

\* the event saveSession logs
SessionSaveTitle ==
  <<"U", "s", "e", "r", " ", "s", "a", "v", "e", "d", " ", "s", "e", "s", "s", "i", "o", "n">>
SessionSaveEvent(s) == Event("SESSION_SAVE", s.rootId, NullId, SessionSaveTitle, NullId)

\* what console.warn is called with: appendEvent's and the timer callback's
EventWriteFailed == "Event log write failed"
StateWriteFailed == "State debounce write failed"
RestoreFailed == "Failed to restore session, starting fresh"

\* a task past its flushPendingState
afterFlush(t) ==
  IF t.cmd = "shutdown" THEN [t EXCEPT !.pc = "fulfilled"]
  ELSE [t EXCEPT !.pc = "markContinue"]

\* active.json holds s, and the store holds neither timer nor payload
Synced(d, st, s) ==
  /\ d.active = <<File(TRUE, s)>>
  /\ st.timers = 0 /\ ~st.flushTimer /\ st.pendingState = <<>>

\* ------------------------------------------- SessionStore: the sessions folder
\* The folder is a record: active.json and continue.flag, the *.snapshot.json
\* files by name, the *.events.log files by session id.  timestampForFile()
\* has the resolution of one second: a name is the second it was made in and
\* the suffix added to it, 0 for none.  The store's record holds sessionId
\* and eventsPath as well: empty for null, one name otherwise.
Name(at, n) == [at |-> at, n |-> n]

\* SessionStore.createSessionId()
createSessionId(now) == Name(now, 0)

\* mutant: the name is the second, whatever is there
firstFree_base(files, now) == Name(now, 0)

\* the first of base, base-1, base-2, .. that names no file of files
firstFree(files, now) ==
  LET taken(k) == Name(now, k) \in DOMAIN files
      k == CHOOSE j \in 0 .. Cardinality(DOMAIN files) :
             ~taken(j) /\ \A h \in 0 .. (j - 1) : taken(h)
  IN Name(now, k)

\* new SessionStore(baseDir)
NewStore ==
  [ pendingState |-> <<>>, flushTimer |-> FALSE, timers |-> 0,
    sessionId |-> <<>>, eventsPath |-> <<>> ]

EmptyDir == [active |-> <<>>, flag |-> FALSE, snapshots |-> <<>>, logs |-> <<>>]

\* createInitialState(sessionId): the root-only state with its sessionId
withSession(s, sessionId) == s @@ [sessionId |-> sessionId]

markContinue(d) == [d EXCEPT !.flag = TRUE]
clearContinue(d) == [d EXCEPT !.flag = FALSE]

\* writeStateNow with nothing else writing: active.json holds s
writeState(d, s) == [d EXCEPT !.active = <<File(TRUE, s)>>]

\* mutant: the line is written to a file of its own
appendLine_fresh(d, st, line) ==
  IF st.eventsPath = <<>> THEN d
  ELSE [d EXCEPT !.logs = (st.eventsPath[1] :> <<line>>) @@ @]

\* appendEvent on the store's eventsPath: appendFile creates the file
appendLine(d, st, line) ==
  IF st.eventsPath = <<>> THEN d
  ELSE LET id == st.eventsPath[1]
           old == IF id \in DOMAIN d.logs THEN d.logs[id] ELSE <<>>
       IN [d EXCEPT !.logs = (id :> appendEvent(old, line)) @@ @]

\* mutant: the snapshot is named after the second, whatever is there
archivePreviousActive_overwrite(d, now) ==
  IF d.active = <<>> THEN d
  ELSE [d EXCEPT !.snapshots = (Name(now, 0) :> d.active[1]) @@ @, !.active = <<>>]

\* archivePreviousActive: active.json is renamed to the first free snapshot name
archivePreviousActive(d, now) ==
  IF d.active = <<>> THEN d
  ELSE [d EXCEPT !.snapshots = (firstFree(d.snapshots, now) :> d.active[1]) @@ @,
                 !.active = <<>>]

SessionResumeTitle ==
  <<"R", "e", "s", "u", "m", "e", "d", " ", "s", "e", "s", "s", "i", "o", "n">>

\* JSON.parse(readFile(..)) of a file: it throws for no file and for a file
\* that is not written to its end
readable(file) == file # <<>> /\ file[1].complete

\* what a store method leaves: the error thrown, the folder, the store, the
\* state returned
Outcome(error, d, st, s) == [error |-> error, dir |-> d, store |-> st, state |-> s]

\* mutant: the flag is cleared once the state is read
restoreSession_clearLast(d, st) ==
  IF ~readable(d.active) THEN Outcome("read failed", d, st, <<>>)
  ELSE LET s == d.active[1].data
           st1 == [st EXCEPT !.sessionId = <<s.sessionId>>, !.eventsPath = <<s.sessionId>>]
       IN Outcome(NoError,
                  appendLine(clearContinue(d), st1,
                             Event("SESSION_RESUME", s.rootId, NullId, SessionResumeTitle, NullId)),
                  st1, s)

\* restoreSession: the flag is cleared, active.json is read, the store takes
\* the session id of the state, SESSION_RESUME is logged
restoreSession(d, st) ==
  LET d1 == clearContinue(d)
  IN IF ~readable(d1.active) THEN Outcome("read failed", d1, st, <<>>)
     ELSE LET s == d1.active[1].data
              st1 == [st EXCEPT !.sessionId = <<s.sessionId>>, !.eventsPath = <<s.sessionId>>]
          IN Outcome(NoError,
                     appendLine(d1, st1,
                                Event("SESSION_RESUME", s.rootId, NullId, SessionResumeTitle, NullId)),
                     st1, s)

\* initSession: the session is resumed when continue.flag is there and
\* active.json can be read; otherwise active.json is archived and a session is
\* started under the first id that owns no events.log
initSession(d, st, now) ==
  LET r == restoreSession(d, st)
  IN IF d.flag /\ r.error = NoError THEN r
     ELSE LET d1 == archivePreviousActive(IF d.flag THEN r.dir ELSE d, now)
              id == firstFree(d1.logs, now)
              st1 == [st EXCEPT !.sessionId = <<id>>, !.eventsPath = <<id>>]
              s == withSession(createInitialState(1), id)
          IN Outcome(NoError,
                     appendLine(writeState(d1, s), st1,
                                Event("SESSION_START", s.rootId, NullId, SessionRootTitle, NullId)),
                     st1, s)

\* the state restoreToSnapshot builds from the snapshot's
restoredState(snap, sessionId) ==
  [ sessionId |-> sessionId, rootId |-> snap.rootId, focusedNodeId |-> snap.rootId,
    nodes |-> snap.nodes, undoStack |-> <<>>, redoStack |-> <<>> ]

RestoredFromTitle(snapshotId) == <<"Restored from", snapshotId>>

\* mutant: the focus of the snapshot is kept
restoreToSnapshot_keepFocus(d, st, now, snapshotId) ==
  LET d1 == clearContinue(archivePreviousActive(d, now))
      file == IF snapshotId \in DOMAIN d1.snapshots THEN <<d1.snapshots[snapshotId]>> ELSE <<>>
  IN IF ~readable(file) THEN Outcome("read failed", d1, st, <<>>)
     ELSE LET id == createSessionId(now)
              st1 == [st EXCEPT !.sessionId = <<id>>, !.eventsPath = <<id>>]
              s == [restoredState(file[1].data, id) EXCEPT
                      !.focusedNodeId = file[1].data.focusedNodeId]
          IN Outcome(NoError,
                     appendLine(writeState(d1, s), st1,
                                Event("SESSION_RESTORED_FROM", s.rootId, NullId,
                                      RestoredFromTitle(snapshotId), NullId)),
                     st1, s)

\* mutant: the store takes the new session id before the snapshot is read
restoreToSnapshot_idFirst(d, st, now, snapshotId) ==
  LET d1 == clearContinue(archivePreviousActive(d, now))
      file == IF snapshotId \in DOMAIN d1.snapshots THEN <<d1.snapshots[snapshotId]>> ELSE <<>>
      id == createSessionId(now)
      st1 == [st EXCEPT !.sessionId = <<id>>, !.eventsPath = <<id>>]
  IN IF ~readable(file) THEN Outcome("read failed", d1, st1, <<>>)
     ELSE LET s == restoredState(file[1].data, id)
          IN Outcome(NoError,
                     appendLine(writeState(d1, s), st1,
                                Event("SESSION_RESTORED_FROM", s.rootId, NullId,
                                      RestoredFromTitle(snapshotId), NullId)),
                     st1, s)

\* restoreToSnapshot: active.json is archived, the flag is cleared, the
\* snapshot is read; then the store takes createSessionId() as it is, the
\* state built from the snapshot is written and SESSION_RESTORED_FROM is logged
restoreToSnapshot(d, st, now, snapshotId) ==
  LET d1 == clearContinue(archivePreviousActive(d, now))
      file == IF snapshotId \in DOMAIN d1.snapshots THEN <<d1.snapshots[snapshotId]>> ELSE <<>>
  IN IF ~readable(file) THEN Outcome("read failed", d1, st, <<>>)
     ELSE LET id == createSessionId(now)
              st1 == [st EXCEPT !.sessionId = <<id>>, !.eventsPath = <<id>>]
              s == restoredState(file[1].data, id)
          IN Outcome(NoError,
                     appendLine(writeState(d1, s), st1,
                                Event("SESSION_RESTORED_FROM", s.rootId, NullId,
                                      RestoredFromTitle(snapshotId), NullId)),
                     st1, s)

\* flushPendingState with nothing else writing
flushNow(d, st) ==
  LET f == flushPendingState(st)
  IN [ dir |-> IF f.write = <<>> THEN d ELSE writeState(d, f.write[1]), store |-> f.store ]

\* AppController.create: initSession, and a machine on the state it returns
ControllerCreate(d, now) == initSession(d, NewStore, now)

\* mutant: the controller keeps the machine it has
ControllerRestoreSession_keepMachine(d, st, s, now, snapshotId) ==
  LET f == flushNow(d, st)
      r == restoreToSnapshot(f.dir, f.store, now, snapshotId)
  IN Outcome(r.error, r.dir, r.store, s)

\* the task of AppController.restoreSession: the pending state is flushed,
\* the store restores, and the controller takes a new machine on the restored
\* state; when the store throws, the machine stays
ControllerRestoreSession(d, st, s, now, snapshotId) ==
  LET f == flushNow(d, st)
      r == restoreToSnapshot(f.dir, f.store, now, snapshotId)
  IN IF r.error # NoError THEN Outcome(r.error, r.dir, r.store, s)
     ELSE r

\* the task of addChild with nothing else running: the machine, the log, the
\* state scheduled
SessionAddChild(d, st, s, parentId) ==
  LET c == ControllerAddChild(s, parentId, <<>>)
  IN IF c.result.error # NoError THEN Outcome(c.result.error, d, st, s)
     ELSE Outcome(NoError, appendLine(d, st, c.events[1]),
                  scheduleStateWrite(st, c.result.state), c.result.state)

\* the task of saveSession with nothing else running
SessionSave(d, st, s) ==
  LET f == flushNow(d, st)
  IN Outcome(NoError, appendLine(markContinue(f.dir), f.store, SessionSaveEvent(s)), f.store, s)

\* ------------------------------------------------------------------ state
\* the machine's this.state
VARIABLES
  state,    \* the TreeStateMachine's state
  issued,   \* the commands that have succeeded so far, counted by SpecCap only
  queue,    \* the tasks chained on AppController.queue, in the order enqueued
  store,    \* the SessionStore's pendingState and flushTimer, and the timers armed
  writers,  \* the writeStateNow calls in progress
  disk,     \* active.json and active.json.tmp
  log,      \* the lines of the session's events.log
  faults,   \* the file operations that have failed so far
  flushOk,  \* no flushPendingState of a task has returned out of step so far
  warned,   \* what console.warn has been called for
  dir,      \* the sessions folder, over the runs of the application
  session,  \* the SessionStore of the run, with its sessionId and eventsPath
  clock,    \* the second the system clock shows
  phase,    \* whether the application is running
  runs      \* the sessions started, resumed and restored so far

\* what the runs of the application are told with
sessVars == <<dir, session, clock, phase, runs>>

appVars == <<queue, store, writers, disk, log, faults, flushOk, warned, sessVars>>

vars == <<state, issued, appVars>>

\* what the tree machine's own commands leave alone
others == <<issued, appVars>>

\* initSession has written the fresh state to active.json and logged
\* SESSION_START; the controller's queue is Promise.resolve()
AppInit ==
  /\ queue = <<>>
  /\ store = [pendingState |-> <<>>, flushTimer |-> FALSE, timers |-> 0]
  /\ writers = <<>>
  /\ disk = [tmp |-> <<>>, active |-> <<File(TRUE, createInitialState(1))>>]
  /\ log = <<Event("SESSION_START", 1, NullId, SessionRootTitle, NullId)>>
  /\ faults = 0
  /\ flushOk = TRUE
  /\ warned = {}

\* one run of the application is looked at: the folder and the clock are left out
OneRun == dir = EmptyDir /\ session = NewStore /\ clock = 0 /\ phase = "running" /\ runs = 0

Init == state = createInitialState(1) /\ issued = 0 /\ AppInit /\ OneRun

\* room for one more undo entry, and for one more id
HistoryRoom == Len(state.undoStack) < MaxUndoDepth
IdRoom == randomUUID(pushUndo(state)) \in Ids

AddChild(parentId, title) ==
  LET r == addChild(state, parentId, title)
  IN /\ r.error = NoError => (HistoryRoom /\ IdRoom)
     /\ state' = r.state
     /\ UNCHANGED others

AddSibling(nodeId, title) ==
  LET r == addSibling(state, nodeId, title)
  IN /\ r.error = NoError => (HistoryRoom /\ IdRoom)
     /\ state' = r.state
     /\ UNCHANGED others

RenameNode(nodeId, title) ==
  LET r == renameNode(state, nodeId, title)
  IN /\ r.error = NoError => HistoryRoom
     /\ state' = r.state
     /\ UNCHANGED others

FocusNode(nodeId) == state' = focusNode(state, nodeId).state /\ UNCHANGED others

CompleteNode(nodeId) ==
  LET r == completeNode(state, nodeId)
  IN /\ r.error = NoError => HistoryRoom
     /\ state' = r.state
     /\ UNCHANGED others

DeleteNode(nodeId) ==
  LET r == deleteNode(state, nodeId)
  IN /\ r.error = NoError => HistoryRoom
     /\ state' = r.state
     /\ UNCHANGED others

Undo == state' = undo(state).state /\ UNCHANGED others

Redo == state' = redo(state).state /\ UNCHANGED others

Next ==
  \/ \E p \in Ids, t \in NewTitles : AddChild(p, t)
  \/ \E n \in Ids, t \in NewTitles : AddSibling(n, t)
  \/ \E n \in Ids, t \in RenameTitles : RenameNode(n, t)
  \/ \E n \in Ids : FocusNode(n)
  \/ \E n \in Ids : CompleteNode(n)
  \/ \E n \in Ids : DeleteNode(n)
  \/ Undo
  \/ Redo

Spec == Init /\ [][Next]_vars

\* ------------------------------------------------ a session at the history cap
\* One task is added below the root and renamed again and again, with undo()
\* and redo() in between at will: long enough a history for MAX_HISTORY to act.
HistoryAddChild ==
  /\ state.nodes[state.rootId].childrenIds = <<>>
  /\ \E t \in NewTitles : state' = addChild(state, state.rootId, t).state
  /\ UNCHANGED others

HistoryRenameNode ==
  /\ \E n \in Range(state.nodes[state.rootId].childrenIds), t \in RenameTitles :
       state' = renameNode(state, n, t).state
  /\ UNCHANGED others

HistoryNext == HistoryAddChild \/ HistoryRenameNode \/ Undo \/ Redo

SpecHistory == Init /\ [][HistoryNext]_vars

\* The same commands on a fresh session with no undo() in between, counted,
\* and then undo() again and again.
CapAddChild ==
  /\ state.redoStack = <<>> /\ issued < MaxIssued
  /\ state.nodes[state.rootId].childrenIds = <<>>
  /\ \E t \in NewTitles : state' = addChild(state, state.rootId, t).state
  /\ issued' = issued + 1
  /\ UNCHANGED appVars

CapRenameNode ==
  /\ state.redoStack = <<>> /\ issued < MaxIssued
  /\ \E n \in Range(state.nodes[state.rootId].childrenIds), t \in RenameTitles :
       state' = renameNode(state, n, t).state
  /\ issued' = issued + 1
  /\ UNCHANGED appVars

CapUndo == state' = undo(state).state /\ UNCHANGED <<issued, appVars>>

CapNext == CapAddChild \/ CapRenameNode \/ CapUndo

SpecCap == Init /\ [][CapNext]_vars

\* --------------------------------------- the controller, its store, the disk
\* Commands are enqueued at any time.  A task runs from one await to the next
\* in one step.  The timer callback and the file operations are steps of
\* their own: the event loop runs them between the tasks' steps.

\* the commands a caller issues here: a task added below the root, the root
\* completed (which the machine rejects), the session saved, the application
\* shut down
AppCalls ==
  { Task("addChild", 1), Task("completeNode", 1),
    Task("saveSession", NullId), Task("shutdown", NullId) }

\* the caller enqueues a command; the application quits after its shutdown()
Enqueue(t) ==
  /\ Len(queue) < MaxCommands
  /\ \A i \in DOMAIN queue : queue[i].cmd # "shutdown"
  /\ queue' = Append(queue, t)
  /\ UNCHANGED <<state, issued, store, writers, disk, log, faults, flushOk, warned, sessVars>>

\* the task of a tree command, from its start to its first await: the machine
\* throws and the promise is rejected, or the state is committed and the task
\* awaits appendEvent
StartCommand(i) ==
  /\ thenReady(queue, i)
  /\ queue[i].cmd \notin SessionCommands
  /\ LET c == IF queue[i].cmd = "addChild"
              THEN ControllerAddChild(state, queue[i].arg, <<>>)
              ELSE ControllerCompleteNode(state, queue[i].arg)
     IN /\ state' = c.result.state
        /\ queue' = [queue EXCEPT ![i] =
                       IF c.result.error # NoError
                       THEN [@ EXCEPT !.pc = "rejected", !.error = c.result.error]
                       ELSE [@ EXCEPT !.pc = "appendEvent", !.events = c.events]]
  /\ UNCHANGED <<issued, store, writers, disk, log, faults, flushOk, warned, sessVars>>

\* the task of saveSession or shutdown, from its start to its first await:
\* flushPendingState returns at once, or awaits writeStateNow
StartFlush(i) ==
  /\ thenReady(queue, i)
  /\ queue[i].cmd \in SessionCommands
  /\ LET f == flushPendingState(store)
     IN /\ store' = f.store
        /\ IF f.write = <<>>
           THEN /\ queue' = [queue EXCEPT ![i] = afterFlush(@)]
                /\ flushOk' = (flushOk /\ Synced(disk, f.store, state))
                /\ UNCHANGED writers
           ELSE /\ queue' = [queue EXCEPT ![i].pc = "flush"]
                /\ writers' = Append(writers, Writer(i, f.write[1]))
                /\ UNCHANGED flushOk
  /\ UNCHANGED <<state, issued, disk, log, faults, warned, sessVars>>

\* the task after an appendEvent: the next appendEvent, or schedulePersist and
\* the promise fulfilled
afterAppend(t) ==
  IF t.next < Len(t.events) THEN [t EXCEPT !.next = @ + 1]
  ELSE [t EXCEPT !.next = @ + 1, !.pc = "fulfilled"]

\* mutant: nothing is scheduled after a line that could not be appended
persistAfter_unlessFailed(t, st, s) ==
  IF t.next < Len(t.events) \/ t.cmd \in SessionCommands \/ t.failed # {} THEN st
  ELSE scheduleStateWrite(st, s)

\* schedulePersist() once the last line of a tree command has been appended
persistAfter(t, st, s) ==
  IF t.next < Len(t.events) \/ t.cmd \in SessionCommands THEN st
  ELSE scheduleStateWrite(st, s)

\* appendFile has added the line
AppendEventDone(i) ==
  /\ i \in DOMAIN queue /\ queue[i].pc = "appendEvent"
  /\ log' = appendEvent(log, queue[i].events[queue[i].next])
  /\ queue' = [queue EXCEPT ![i] = afterAppend(@)]
  /\ store' = persistAfter(queue[i], store, state)
  /\ UNCHANGED <<state, issued, writers, disk, faults, flushOk, warned, sessVars>>

\* appendFile has failed: appendEvent logs the error and returns
AppendEventFails(i) ==
  /\ i \in DOMAIN queue /\ queue[i].pc = "appendEvent"
  /\ faults < MaxFaults
  /\ faults' = faults + 1
  /\ warned' = warned \cup {EventWriteFailed}
  /\ LET t == [queue[i] EXCEPT !.failed = @ \cup {queue[i].next}]
     IN /\ queue' = [queue EXCEPT ![i] = afterAppend(t)]
        /\ store' = persistAfter(t, store, state)
  /\ UNCHANGED <<state, issued, writers, disk, log, flushOk, sessVars>>

\* saveSession after markContinue: it awaits appendEvent("SESSION_SAVE")
MarkContinueDone(i) ==
  /\ i \in DOMAIN queue /\ queue[i].pc = "markContinue"
  /\ queue' = [queue EXCEPT ![i].pc = "appendEvent", ![i].events = <<SessionSaveEvent(state)>>]
  /\ UNCHANGED <<state, issued, store, writers, disk, log, faults, flushOk, warned, sessVars>>

\* the debounce timer fires
FlushTimerFires ==
  /\ store.timers > 0
  /\ LET f == flushTimerCallback(store)
     IN /\ store' = f.store
        /\ writers' = IF f.write = <<>> THEN writers
                       ELSE Append(writers, Writer(0, f.write[1]))
  /\ UNCHANGED <<state, issued, queue, disk, log, faults, flushOk, warned, sessVars>>

\* the writers left when writer w is done
without(ws, w) == SubSeq(ws, 1, w - 1) \o SubSeq(ws, w + 1, Len(ws))

\* writeStateNow of writer w returns (ok) or throws: the timer callback logs a
\* throw; a task goes on after flushPendingState, or is rejected
Returns(w, ok, ws, d) ==
  /\ writers' = without(ws, w)
  /\ IF writers[w].by = 0
     THEN /\ warned' = IF ok THEN warned ELSE warned \cup {StateWriteFailed}
          /\ UNCHANGED <<queue, flushOk>>
     ELSE /\ queue' = [queue EXCEPT ![writers[w].by] =
                         IF ok THEN afterFlush(@)
                         ELSE [@ EXCEPT !.pc = "rejected", !.error = "write failed"]]
          /\ flushOk' = (flushOk /\ (ok => Synced(d, store, state)))
          /\ UNCHANGED warned

\* fs.writeFile(tempPath) opens the file: created or truncated
WriteFileOpens(w) ==
  /\ w \in DOMAIN writers /\ writers[w].pc = "open"
  /\ disk' = [disk EXCEPT !.tmp = <<File(FALSE, writers[w].data)>>]
  /\ writers' = [writers EXCEPT ![w].pc = "write", ![w].fd = "tmp"]
  /\ UNCHANGED <<state, issued, queue, store, log, faults, flushOk, warned, sessVars>>

\* the file a writer's descriptor refers to, written to its end
written(d, wr) ==
  IF wr.fd = "tmp" THEN [d EXCEPT !.tmp = <<File(TRUE, wr.data)>>]
  ELSE IF wr.fd = "active" THEN [d EXCEPT !.active = <<File(TRUE, wr.data)>>]
  ELSE d

\* fs.writeFile(tempPath) has written the file it opened
WriteFileDone(w) ==
  /\ w \in DOMAIN writers /\ writers[w].pc = "write"
  /\ disk' = written(disk, writers[w])
  /\ writers' = [writers EXCEPT ![w].pc = "rename"]
  /\ UNCHANGED <<state, issued, queue, store, log, faults, flushOk, warned, sessVars>>

\* fs.writeFile(tempPath) fails: writeStateNow throws
WriteFileFails(w) ==
  /\ w \in DOMAIN writers /\ writers[w].pc = "write"
  /\ faults < MaxFaults
  /\ faults' = faults + 1
  /\ Returns(w, FALSE, writers, disk)
  /\ UNCHANGED <<state, issued, store, disk, log, sessVars>>

\* fs.rename(tempPath, activePath), first or second: it replaces active.json,
\* or throws ENOENT when no temp file is there
Rename(w) ==
  /\ w \in DOMAIN writers /\ writers[w].pc \in {"rename", "retry"}
  /\ IF disk.tmp = <<>>
     THEN /\ Returns(w, FALSE, writers, disk)
          /\ UNCHANGED disk
     ELSE /\ disk' = renamed(disk)
          /\ Returns(w, TRUE, [v \in DOMAIN writers |-> [writers[v] EXCEPT !.fd = renamedFd(@)]],
                     renamed(disk))
  /\ UNCHANGED <<state, issued, store, log, faults, sessVars>>

\* the first fs.rename throws EEXIST or EPERM
RenameConflict(w) ==
  /\ w \in DOMAIN writers /\ writers[w].pc = "rename"
  /\ disk.tmp # <<>> /\ disk.active # <<>>
  /\ faults < MaxFaults
  /\ faults' = faults + 1
  /\ writers' = [writers EXCEPT ![w].pc = "rm"]
  /\ UNCHANGED <<state, issued, queue, store, disk, log, flushOk, warned, sessVars>>

\* fs.rm(activePath, force)
RemoveDestination(w) ==
  /\ w \in DOMAIN writers /\ writers[w].pc = "rm"
  /\ disk' = removed(disk)
  /\ writers' = [v \in DOMAIN writers |->
                   [writers[v] EXCEPT !.fd = removedFd(@), !.pc = IF v = w THEN "retry" ELSE @]]
  /\ UNCHANGED <<state, issued, queue, store, log, faults, flushOk, warned, sessVars>>

AppNext ==
  \/ \E t \in AppCalls : Enqueue(t)
  \/ \E i \in DOMAIN queue : StartCommand(i)
  \/ \E i \in DOMAIN queue : StartFlush(i)
  \/ \E i \in DOMAIN queue : AppendEventDone(i)
  \/ \E i \in DOMAIN queue : AppendEventFails(i)
  \/ \E i \in DOMAIN queue : MarkContinueDone(i)
  \/ FlushTimerFires
  \/ \E w \in DOMAIN writers : WriteFileOpens(w)
  \/ \E w \in DOMAIN writers : WriteFileDone(w)
  \/ \E w \in DOMAIN writers : WriteFileFails(w)
  \/ \E w \in DOMAIN writers : Rename(w)
  \/ \E w \in DOMAIN writers : RenameConflict(w)
  \/ \E w \in DOMAIN writers : RemoveDestination(w)

SpecApp == Init /\ [][AppNext]_vars

\* ------------------------------------------ the application, run after run
\* The application is started, used, and quit, again and again, on one
\* sessions folder, while the clock goes on.  Nothing runs beside a task here
\* and no write fails: a task, the timer callback and a start are one step each.

\* what the first start finds: no folder, or an active.json that a run before
\* has not written to its end, with or without continue.flag
PriorDirs ==
  {EmptyDir} \cup {[EmptyDir EXCEPT !.active = <<File(FALSE, <<>>)>>, !.flag = f] : f \in BOOLEAN}

\* the snapshot ids a caller passes: the files listSnapshots() shows, and one
\* that names no file
SnapshotIds == DOMAIN dir.snapshots \cup {Name(MaxClock + 1, 0)}

SessionInit ==
  /\ state = <<>> /\ issued = 0 /\ AppInit
  /\ dir \in PriorDirs /\ session = NewStore /\ clock = 0 /\ phase = "stopped" /\ runs = 0

\* what the steps of this specification leave alone
oneRunVars == <<issued, queue, store, writers, disk, log, faults, flushOk>>

\* the outcome o of a task or of a start is taken over
Taken(o) == dir' = o.dir /\ session' = o.store /\ state' = o.state

Tick ==
  /\ clock < MaxClock
  /\ clock' = clock + 1
  /\ UNCHANGED <<state, dir, session, phase, runs, warned, oneRunVars>>

\* main.js starts the application: AppController.create
Launch ==
  /\ phase = "stopped" /\ runs < MaxRuns
  /\ Taken(ControllerCreate(dir, clock))
  /\ warned' = IF dir.flag /\ restoreSession(dir, NewStore).error # NoError
               THEN warned \cup {RestoreFailed} ELSE warned
  /\ phase' = "running" /\ runs' = runs + 1
  /\ UNCHANGED <<clock, oneRunVars>>

\* one task is added to the tree a machine is made on
SessAddChild ==
  /\ phase = "running"
  /\ state.undoStack = <<>>
  /\ Taken(SessionAddChild(dir, session, state, state.rootId))
  /\ UNCHANGED <<clock, phase, runs, warned, oneRunVars>>

\* the debounce timer fires and its write is done
SessTimerFires ==
  /\ phase = "running" /\ session.timers > 0
  /\ LET f == flushTimerCallback(session)
     IN /\ session' = f.store
        /\ dir' = IF f.write = <<>> THEN dir ELSE writeState(dir, f.write[1])
  /\ UNCHANGED <<state, clock, phase, runs, warned, oneRunVars>>

SessSave ==
  /\ phase = "running" /\ ~dir.flag
  /\ Taken(SessionSave(dir, session, state))
  /\ UNCHANGED <<clock, phase, runs, warned, oneRunVars>>

SessRestore(snapshotId) ==
  /\ phase = "running" /\ runs < MaxRuns
  /\ Taken(ControllerRestoreSession(dir, session, state, clock, snapshotId))
  /\ runs' = runs + 1
  /\ UNCHANGED <<clock, phase, warned, oneRunVars>>

\* shutdown() and app.quit(): the store and the machine are gone
Quit ==
  /\ phase = "running"
  /\ dir' = flushNow(dir, session).dir
  /\ session' = NewStore /\ state' = <<>> /\ phase' = "stopped"
  /\ UNCHANGED <<clock, runs, warned, oneRunVars>>

SessionNext ==
  \/ Tick
  \/ Launch
  \/ SessAddChild
  \/ SessTimerFires
  \/ SessSave
  \/ \E id \in SnapshotIds : SessRestore(id)
  \/ Quit

SpecSession == SessionInit /\ [][SessionNext]_vars

\* ----------------------------------------------------------------- claims
Top(stack) == stack[Len(stack)]

ActiveIds(s) == {n \in DOMAIN s.nodes : s.nodes[n].status = "active"}
DeletedIds(s) == {n \in DOMAIN s.nodes : s.nodes[n].status = "deleted"}

\* the nodes above n, following parentId
RECURSIVE AncestorsOf(_, _)
AncestorsOf(s, n) ==
  LET p == s.nodes[n].parentId
  IN IF p = NullId \/ p \notin DOMAIN s.nodes THEN {} ELSE {p} \cup AncestorsOf(s, p)

\* the nodes below n, following parentId
DescendantsOf(s, n) == {m \in DOMAIN s.nodes : n \in AncestorsOf(s, m)}

\* the outcomes of every mutating command a caller can issue in state s
MutatingResults(s) ==
  {addChild(s, p, t) : p \in Ids, t \in NewTitles}
    \cup {addSibling(s, n, t) : n \in Ids, t \in NewTitles}
    \cup {renameNode(s, n, t) : n \in Ids, t \in RenameTitles}
    \cup {completeNode(s, n) : n \in Ids}
    \cup {deleteNode(s, n) : n \in Ids}

\* the outcomes of every command that can be rejected
CheckedResults(s) == MutatingResults(s) \cup {focusNode(s, n) : n \in Ids}

SameTree(s1, s2) == s1.nodes = s2.nodes /\ s1.focusedNodeId = s2.focusedNodeId

\* C1: in every reachable state S, for every successful mutating command,
\* undo() after the command gives the nodes and the focus of S, and redo() after
\* that undo() gives the nodes and the focus the command had produced.  For a
\* focused node B below A, completeNode(B) leaves B deleted with the focus on A,
\* undo() leaves B active and focused, redo() leaves B deleted with the focus on A.
C1_UndoRedoRestore ==
  /\ \A r \in MutatingResults(state) :
       r.error = NoError =>
         LET undone == undo(r.state).state
             redone == redo(undone).state
         IN /\ SameTree(undone, state)
            /\ SameTree(redone, r.state)
  /\ \A b \in ActiveIds(state) :
       (b = state.focusedNodeId /\ b # state.rootId) =>
         LET a == state.nodes[b].parentId
             done == completeNode(state, b).state
             undone == undo(done).state
             redone == redo(undone).state
         IN /\ done.nodes[b].status = "deleted" /\ done.focusedNodeId = a
            /\ undone.nodes[b].status = "active" /\ undone.focusedNodeId = b
            /\ redone.nodes[b].status = "deleted" /\ redone.focusedNodeId = a

\* undo() has run after addChild(R, A), addChild(A, B), completeNode(B)
C1_Witness ==
  /\ Len(state.undoStack) = 2 /\ Len(state.redoStack) = 1
  /\ \E b \in ActiveIds(state) :
       /\ state.focusedNodeId = b
       /\ state.nodes[b].parentId \notin {NullId, state.rootId}
       /\ Top(state.redoStack).nodes[b].status = "deleted"
       /\ Top(state.redoStack).focusedNodeId = state.nodes[b].parentId
       /\ b \notin DOMAIN Top(state.undoStack).nodes

\* C2: in every reachable state focusedNodeId names a node of nodes whose
\* status is active
C2_FocusIsActive ==
  /\ state.focusedNodeId \in DOMAIN state.nodes
  /\ state.nodes[state.focusedNodeId].status = "active"

\* a soft delete has just deleted a subtree while the focus was on a node
\* inside it, below the node deleted
C2_Witness ==
  /\ Len(state.undoStack) > 0
  /\ Top(state.undoStack).focusedNodeId \in DeletedIds(state)
  /\ state.nodes[Top(state.undoStack).focusedNodeId].parentId # state.focusedNodeId

\* C3: in every reachable state exactly one node has parentId null and it is
\* rootId, every other parentId names a node of nodes, and every id in a node's
\* childrenIds names a node whose parentId is that node
C3_TreeShape ==
  /\ {n \in DOMAIN state.nodes : state.nodes[n].parentId = NullId} = {state.rootId}
  /\ \A n \in DOMAIN state.nodes \ {state.rootId} :
       state.nodes[n].parentId \in DOMAIN state.nodes
  /\ \A n \in DOMAIN state.nodes : \A c \in Range(state.nodes[n].childrenIds) :
       c \in DOMAIN state.nodes /\ state.nodes[c].parentId = n

\* three nodes were added and one of them, with a sibling, was soft-deleted
C3_Witness ==
  /\ Cardinality(DOMAIN state.nodes) >= 3
  /\ \E d \in DeletedIds(state) : \E a \in ActiveIds(state) :
       a # d /\ state.nodes[a].parentId = state.nodes[d].parentId

\* C4: in every reachable state no active node has a deleted ancestor, and
\* completeNode(n) / deleteNode(n) leaves n and every descendant of n deleted,
\* at every depth, with no active node below a deleted one afterwards
NoActiveBelowDeleted(s) ==
  \A n \in ActiveIds(s) : AncestorsOf(s, n) \subseteq ActiveIds(s)

C4_CascadeDelete ==
  /\ NoActiveBelowDeleted(state)
  /\ \A n \in Ids : \A r \in {completeNode(state, n), deleteNode(state, n)} :
       r.error = NoError =>
         /\ ({n} \cup DescendantsOf(state, n)) \subseteq DeletedIds(r.state)
         /\ NoActiveBelowDeleted(r.state)
         /\ \A r2 \in MutatingResults(r.state) :
              r2.error = NoError => NoActiveBelowDeleted(r2.state)

\* a soft delete has just deleted a node together with its child
C4_Witness ==
  /\ Len(state.undoStack) > 0
  /\ \E n \in DeletedIds(state) : \E m \in DeletedIds(state) :
       /\ state.nodes[m].parentId = n
       /\ {n, m} \subseteq ActiveIds(Top(state.undoStack))

\* C5: for every active node n other than the root, whichever node has the
\* focus, completeNode(n) and deleteNode(n) return n's parentId as nextFocusId
\* and leave the focus on it
C5_FocusReturnsToParent ==
  \A n \in ActiveIds(state) \ {state.rootId} :
    \A r \in {completeNode(state, n), deleteNode(state, n)} :
      /\ r.error = NoError
      /\ r.value = state.nodes[n].parentId
      /\ r.state.focusedNodeId = state.nodes[n].parentId

\* a node below a non-root parent was soft-deleted while the focus was elsewhere
C5_Witness ==
  /\ Len(state.undoStack) > 0
  /\ \E n \in DeletedIds(state) :
       /\ n \in ActiveIds(Top(state.undoStack))
       /\ Top(state.undoStack).focusedNodeId \notin {n, state.nodes[n].parentId}
       /\ state.nodes[n].parentId # state.rootId
       /\ state.focusedNodeId = state.nodes[n].parentId

\* C6: in every reachable state deleteNode(rootId) and completeNode(rootId)
\* fail with the root-protected error, and the root is active
C6_RootProtected ==
  /\ completeNode(state, state.rootId).error = RootNodeProtected
  /\ deleteNode(state, state.rootId).error = RootNodeProtected
  /\ state.rootId \in ActiveIds(state)

\* the root has a deleted child and an active one, the focus is below the root
\* and the undo stack holds entries
C6_Witness ==
  /\ state.undoStack # <<>>
  /\ state.focusedNodeId # state.rootId
  /\ \E d \in DeletedIds(state) : state.nodes[d].parentId = state.rootId

\* C7: a rejected addChild, addSibling, renameNode, focusNode, completeNode or
\* deleteNode leaves nodes, focusedNodeId, undoStack and redoStack as they were
C7_RejectedLeavesState ==
  \A r \in CheckedResults(state) : r.error # NoError => r.state = state

\* both stacks hold entries, and calls are rejected for a missing id, for a
\* soft-deleted id and for the root
C7_Witness ==
  /\ state.undoStack # <<>> /\ state.redoStack # <<>>
  /\ \E n \in Ids \ DOMAIN state.nodes : renameNode(state, n, <<"b">>).error = NodeNotFound
  /\ \E d \in DeletedIds(state) : addChild(state, d, <<"b">>).error = NodeNotFound
  /\ deleteNode(state, state.rootId).error = RootNodeProtected

\* C8: completeNode / deleteNode on a deleted node fails with NodeNotFound, and
\* no completeNode / deleteNode makes a deleted node active, also when the node
\* it deletes has deleted nodes below it
C8_DeletedStaysDeleted ==
  /\ \A d \in DeletedIds(state) :
       /\ completeNode(state, d).error = NodeNotFound
       /\ deleteNode(state, d).error = NodeNotFound
  /\ \A n \in Ids : \A r \in {completeNode(state, n), deleteNode(state, n)} :
       DeletedIds(state) \subseteq DeletedIds(r.state)

\* an active node below the root has a deleted child, itself deleted directly
C8_Witness ==
  \E d \in DeletedIds(state) :
    /\ state.nodes[d].parentId \in ActiveIds(state) \ {state.rootId}
    /\ completeNode(state, d).error = NodeNotFound
    /\ LET r == deleteNode(state, state.nodes[d].parentId)
       IN r.error = NoError /\ {d, state.nodes[d].parentId} \subseteq DeletedIds(r.state)

\* C9: addChild(p, t) on an active node p creates exactly one node, active and
\* with parentId p, appends its id once at the end of p's childrenIds, leaves the
\* childrenIds, parentId and status of every other node as they were, and
\* focuses the new node
C9_AddChildAppends ==
  \A p \in ActiveIds(state) : \A t \in NewTitles :
    LET r == addChild(state, p, t)
        new == r.value
        old == state.nodes
        now == r.state.nodes
    IN /\ r.error = NoError
       /\ new \notin DOMAIN old
       /\ DOMAIN now = DOMAIN old \cup {new}
       /\ now[new].status = "active" /\ now[new].parentId = p
       /\ now[new].childrenIds = <<>>
       /\ now[p].childrenIds = Append(old[p].childrenIds, new)
       /\ Cardinality({i \in DOMAIN now[p].childrenIds : now[p].childrenIds[i] = new}) = 1
       /\ now[p].parentId = old[p].parentId /\ now[p].status = old[p].status
       /\ \A m \in DOMAIN old \ {p} :
            /\ now[m].childrenIds = old[m].childrenIds
            /\ now[m].parentId = old[m].parentId
            /\ now[m].status = old[m].status
       /\ r.state.focusedNodeId = new

\* addChild has just added a second child to a node below the root
C9_Witness ==
  /\ Len(state.undoStack) > 0
  /\ LET n == state.focusedNodeId
         p == state.nodes[n].parentId
     IN /\ n \notin DOMAIN Top(state.undoStack).nodes
        /\ p # NullId
        /\ Len(state.nodes[p].childrenIds) >= 2
        /\ Top(state.nodes[p].childrenIds) = n

\* C10: for every id n, completeNode(n) and deleteNode(n) have the same outcome:
\* the same error or the same nodes, focus, stacks and nextFocusId; the events
\* the controller logs for them differ in the action name of the first one only
C10_CompleteEqualsDelete ==
  \A n \in Ids :
    LET c == ControllerCompleteNode(state, n)
        d == ControllerDeleteNode(state, n)
    IN /\ c.result.error = d.result.error
       /\ c.result.state = d.result.state
       /\ c.result.value = d.result.value
       /\ Len(c.events) = Len(d.events)
       /\ c.result.error = NoError =>
            /\ Len(c.events) = 2
            /\ c.events[1].action = "COMPLETE_NODE" /\ d.events[1].action = "DELETE_NODE"
            /\ [c.events[1] EXCEPT !.action = "x"] = [d.events[1] EXCEPT !.action = "x"]
            /\ c.events[2] = d.events[2]

\* the two commands succeed on an active node, and fail alike on a deleted
\* node and on a missing id
C10_Witness ==
  /\ \E n \in ActiveIds(state) \ {state.rootId} :
       /\ ControllerCompleteNode(state, n).events # <<>>
       /\ completeNode(state, n).error = NoError
       /\ deleteNode(state, n).error = NoError
  /\ \E d \in DeletedIds(state) : deleteNode(state, d).error = NodeNotFound
  /\ \E n \in Ids \ DOMAIN state.nodes : completeNode(state, n).error = NodeNotFound

\* C13: in every reachable state S below the history cap, every successful
\* addChild, addSibling, renameNode, completeNode and deleteNode leaves an undo
\* stack that is the one of S with exactly one more entry on top, that entry
\* holding the nodes and the focus of S, and leaves the redo stack empty, so
\* that redo() right after the command changes nothing
C13_PushesOneSnapshot ==
  \A r \in MutatingResults(state) :
    (r.error = NoError /\ Len(state.undoStack) < MAX_HISTORY) =>
      /\ Len(r.state.undoStack) = Len(state.undoStack) + 1
      /\ SubSeq(r.state.undoStack, 1, Len(state.undoStack)) = state.undoStack
      /\ Top(r.state.undoStack).nodes = state.nodes
      /\ Top(r.state.undoStack).focusedNodeId = state.focusedNodeId
      /\ r.state.redoStack = <<>>
      /\ redo(r.state).state = r.state

\* a command is issued after two undo(): both stacks hold entries, and the
\* command succeeds
C13_Witness ==
  /\ Len(state.redoStack) = 2 /\ Len(state.undoStack) = 1
  /\ \E r \in MutatingResults(state) : r.error = NoError /\ r.state.redoStack = <<>>

\* C11: in every state reachable by any interleaving of mutating commands,
\* undo() and redo(), the undo stack holds at most MAX_HISTORY = 200 entries
\* (redo() pushes onto it too); a successful mutating command issued with the
\* stack full discards the oldest entry and puts the new one on top
C11_UndoStackCapped ==
  /\ Len(state.undoStack) <= MAX_HISTORY
  /\ Len(redo(state).state.undoStack) <= MAX_HISTORY
  /\ Len(state.undoStack) = MAX_HISTORY =>
       \A r \in MutatingResults(state) :
         r.error = NoError =>
           r.state.undoStack = Append(Tail(state.undoStack), snapshot(state))

\* the stack is full and its oldest entry is no longer the first one pushed,
\* the snapshot of the fresh session
C11_Witness ==
  /\ Len(state.undoStack) = MAX_HISTORY
  /\ state.undoStack[1].nodes # createInitialState(1).nodes
  /\ \E r \in MutatingResults(state) : r.error = NoError

\* the state the first command of a session at the history cap produces
FirstCommandState == addChild(createInitialState(1), 1, <<>>).state

\* C12 as stated: after MAX_HISTORY + 1 = 201 successful commands on a fresh
\* session with no undo() in between, no number of undo() gives the state the
\* 1st command produced, and undo() is a no-op after at most 200 of them
C12_FirstCommandStateLost ==
  issued = MAX_HISTORY + 1 =>
    /\ ~SameTree(state, FirstCommandState)
    /\ Len(state.redoStack) <= MAX_HISTORY
    /\ state.undoStack = <<>> => undo(state).state = state

\* C12, amended: after 201 successful commands on a fresh session with no
\* undo() in between, no number of undo() gives the state from before the 1st
\* command, the fresh session; undo() is a no-op after at most 200 of them, and
\* the 200th gives the state the 1st command produced
C12_InitialStateLost ==
  issued = MAX_HISTORY + 1 =>
    /\ ~SameTree(state, createInitialState(1))
    /\ Len(state.redoStack) <= MAX_HISTORY
    /\ state.undoStack = <<>> =>
         /\ undo(state).state = state
         /\ Len(state.redoStack) = MAX_HISTORY
         /\ SameTree(state, FirstCommandState)

\* 201 commands, then undo() until it is a no-op
C12_Witness ==
  /\ issued = MAX_HISTORY + 1
  /\ state.undoStack = <<>>
  /\ Len(state.redoStack) = MAX_HISTORY

\* a task that has started and has not settled
Running(t) == t.pc \notin {"pending", "fulfilled", "rejected"}

\* C14: in every reachable state of the controller at most one task has
\* started and not settled, whatever has been enqueued meanwhile; every task
\* before a task that has started has settled, fulfilled or rejected; and at
\* most one writeStateNow is awaited by a task
C14_OneTaskAtATime ==
  /\ Cardinality({i \in DOMAIN queue : Running(queue[i])}) <= 1
  /\ \A i, j \in DOMAIN queue :
       (i < j /\ queue[j].pc # "pending") => settled(queue[i])
  /\ Cardinality({w \in DOMAIN writers : writers[w].by # 0}) <= 1

\* a task is suspended at file I/O after a rejected one, and a command
\* enqueued meanwhile waits behind it
C14_Witness ==
  /\ Len(queue) = 3
  /\ queue[1].pc = "rejected"
  /\ queue[2].pc \in {"appendEvent", "flush"}
  /\ queue[3].pc = "pending"

\* the task can take a step: it can start, or the file operation it awaits
\* is in progress (the guards of StartCommand, StartFlush, AppendEventDone,
\* MarkContinueDone and of the steps of its writer)
CanStep(i) ==
  \/ thenReady(queue, i)
  \/ queue[i].pc \in {"appendEvent", "markContinue"}
  \/ queue[i].pc = "flush" /\ \E w \in DOMAIN writers : writers[w].by = i

\* C15: a rejected command settles the queue's promise like a fulfilled one.
\* In every reachable state: a task holds an error only if it was rejected
\* itself, never because a task before it was; a tree command the machine
\* rejects leaves the machine's state as it was; and the first command that
\* has not settled, whatever the outcome of those before it, can start or is
\* awaiting a file operation in progress.  Every step brings a task or a write
\* nearer its end, so every command enqueued settles.
C15_FailureDoesNotPoison ==
  \A i \in DOMAIN queue :
    /\ (queue[i].pc = "rejected") = (queue[i].error # NoError)
    /\ (thenReady(queue, i) /\ queue[i].cmd = "completeNode"
          /\ completeNode(state, queue[i].arg).error # NoError)
         => completeNode(state, queue[i].arg).state = state
    /\ (~settled(queue[i]) /\ \A j \in 1 .. i - 1 : settled(queue[j])) => CanStep(i)

\* a command has been fulfilled after a rejected one
C15_Witness ==
  \E i, j \in DOMAIN queue :
    /\ i < j
    /\ queue[i].pc = "rejected"
    /\ queue[j].pc = "fulfilled" /\ queue[j].error = NoError

\* the events of the appendEvent calls a task has made so far
RECURSIVE LinesCalled(_)
LinesCalled(q) ==
  IF q = <<>> THEN <<>>
  ELSE SubSeq(q[1].events, 1, q[1].next - 1) \o LinesCalled(Tail(q))

\* those of them whose appendFile has succeeded
RECURSIVE pick(_, _, _)
pick(events, last, failed) ==
  IF last = 0 THEN <<>>
  ELSE pick(events, last - 1, failed)
         \o (IF last \in failed THEN <<>> ELSE <<events[last]>>)

RECURSIVE LinesWritten(_)
LinesWritten(q) ==
  IF q = <<>> THEN <<>>
  ELSE pick(q[1].events, q[1].next - 1, q[1].failed) \o LinesWritten(Tail(q))

Unscheduled == \E i \in DOMAIN queue : queue[i].pc = "appendEvent" /\ queue[i].cmd \notin SessionCommands

\* C17: never more than one timer is armed; while one is armed the payload is
\* the state of the last scheduleStateWrite call; a further call replaces the
\* payload and arms nothing; the timer's callback passes that last state to
\* exactly one writeStateNow and leaves neither timer nor payload
C17_DebounceCoalesces ==
  /\ store.timers <= 1
  /\ store.flushTimer = (store.timers = 1)
  /\ store.flushTimer => store.pendingState # <<>>
  /\ (store.flushTimer /\ ~Unscheduled) => store.pendingState = <<state>>
  /\ LET later == addChild(state, state.rootId, <<>>).state
         first == scheduleStateWrite(store, state)
         last == scheduleStateWrite(first, later)
         fired == flushTimerCallback(last)
     IN /\ first.timers = 1 /\ last.timers = 1
        /\ last.pendingState = <<later>>
        /\ fired.write = <<later>>
        /\ fired.store = [pendingState |-> <<>>, flushTimer |-> FALSE, timers |-> 0]

\* two commands have called scheduleStateWrite and the timer the first one
\* armed has not fired
C17_Witness ==
  /\ Len(queue) >= 2
  /\ queue[1].pc = "fulfilled" /\ queue[1].cmd = "addChild"
  /\ queue[2].pc = "fulfilled" /\ queue[2].cmd = "addChild"
  /\ store.timers = 1 /\ writers = <<>>
  /\ disk.active = <<File(TRUE, createInitialState(1))>>
  /\ store.pendingState = <<state>>

\* C18: whenever the flushPendingState of a saveSession or shutdown task has
\* returned without a throw, at that moment active.json held the machine's
\* state, no timer was armed and no payload was pending
C18_FlushSynchronizes == flushOk

\* shutdown() is fulfilled while the writeStateNow of the timer callback is
\* still in progress and active.json holds an older state
C18_Witness ==
  /\ \E i \in DOMAIN queue : queue[i].cmd = "shutdown" /\ queue[i].pc = "fulfilled"
  /\ \E w \in DOMAIN writers : writers[w].by = 0 /\ writers[w].data = state
  /\ disk.active # <<File(TRUE, state)>>
  /\ ~flushOk

\* C19: at every step of every writeStateNow a reader of active.json finds
\* a file, and the file holds a state written to its end
C19_AtomicReplace ==
  /\ disk.active # <<>>
  /\ disk.active[1].complete

\* active.json is a file that a writeStateNow has opened and not written to
\* its end
C19_Witness ==
  /\ disk.active # <<>>
  /\ ~disk.active[1].complete
  /\ faults = 0

\* C20: at most one writeStateNow is in progress
C20_SingleWriter == Len(writers) <= 1

\* the writeStateNow of the timer callback and the writeStateNow of a
\* flushPendingState are in progress together, both with active.json.tmp open
C20_Witness ==
  \E v, w \in DOMAIN writers :
    /\ writers[v].by = 0 /\ writers[w].by # 0
    /\ writers[v].fd = "tmp" /\ writers[w].fd = "tmp"

\* C27: in every step in which the appendFile of a task's line fails, the
\* task is not rejected and holds no error, the machine's state stays as the
\* command left it, and when the line was the last one of a tree command the
\* task is fulfilled with that state scheduled: it is the pending state and a
\* timer is armed
C27_AppendFailureIsSwallowed ==
  [][\A i \in DOMAIN queue :
       (queue[i].pc = "appendEvent" /\ queue'[i].failed # queue[i].failed) =>
         /\ queue'[i].error = NoError
         /\ queue'[i].pc \in {"appendEvent", "fulfilled"}
         /\ state' = state
         /\ (queue[i].cmd = "addChild" => queue[i].events[1].nodeId \in DOMAIN state'.nodes)
         /\ (queue[i].cmd \notin SessionCommands /\ queue[i].next = Len(queue[i].events)) =>
              /\ queue'[i].pc = "fulfilled"
              /\ store'.pendingState = <<state'>>
              /\ store'.flushTimer /\ store'.timers > 0]_vars

\* addChild is fulfilled with its ADD_CHILD line missing from the log, the
\* task in the tree and the state pending
C27_Witness ==
  \E i \in DOMAIN queue :
    /\ queue[i].cmd = "addChild" /\ queue[i].pc = "fulfilled" /\ queue[i].failed = {1}
    /\ queue[i].events[1].nodeId \in DOMAIN state.nodes
    /\ \A k \in DOMAIN log : log[k].action # "ADD_CHILD"
    /\ store.pendingState = <<state>> /\ store.timers = 1
    /\ EventWriteFailed \in warned

\* C28: once a write of the timer callback has failed, a flushPendingState
\* called with no task running and no write in progress writes the machine's
\* state, unless active.json holds it already
C28_FlushAfterFailedTimerWrite ==
  (/\ StateWriteFailed \in warned
   /\ writers = <<>>
   /\ \A i \in DOMAIN queue : ~Running(queue[i]))
    => LET f == flushPendingState(store)
       IN IF f.write = <<>> THEN disk.active = <<File(TRUE, state)>>
          ELSE f.write = <<state>>

\* the write of the timer callback has failed, shutdown() is fulfilled after
\* it, nothing is pending or in progress, and active.json holds the state of
\* the session's start while the machine holds a task
C28_Witness ==
  /\ StateWriteFailed \in warned
  /\ \E i \in DOMAIN queue : queue[i].cmd = "shutdown" /\ queue[i].pc = "fulfilled"
  /\ writers = <<>> /\ store.pendingState = <<>> /\ store.timers = 0
  /\ disk.active = <<File(TRUE, createInitialState(1))>>
  /\ state # createInitialState(1)

\* C29: once shutdown() is fulfilled, active.json holds the machine's state,
\* no timer is armed and no state is pending
C29_ShutdownLosesNothing ==
  \A i \in DOMAIN queue :
    (queue[i].cmd = "shutdown" /\ queue[i].pc = "fulfilled") =>
      Synced(disk, store, state)

\* shutdown() is fulfilled with no file operation failed, while the timer
\* callback's writeStateNow has not opened its file yet and active.json lacks
\* the task a fulfilled addChild added
C29_Witness ==
  /\ faults = 0
  /\ \E i \in DOMAIN queue : queue[i].cmd = "shutdown" /\ queue[i].pc = "fulfilled"
  /\ \E i \in DOMAIN queue : queue[i].cmd = "addChild" /\ queue[i].pc = "fulfilled"
  /\ \E w \in DOMAIN writers : writers[w].by = 0 /\ writers[w].pc = "open"
  /\ disk.active = <<File(TRUE, createInitialState(1))>>

\* the root-only state of session id: one active root, the focus on it, no
\* other node, both stacks empty
RootOnly(s, id) ==
  /\ s.sessionId = id
  /\ DOMAIN s.nodes = {s.rootId} /\ ActiveIds(s) = {s.rootId}
  /\ s.focusedNodeId = s.rootId
  /\ s.undoStack = <<>> /\ s.redoStack = <<>>

\* the folder after holds a fresh session: active.json holds the root-only
\* state s of an id that owned no log before, the store has that id, and the
\* id's log is new and holds SESSION_START
FreshSession(before, r) ==
  LET id == r.state.sessionId
  IN /\ r.error = NoError
     /\ RootOnly(r.state, id)
     /\ r.store.sessionId = <<id>> /\ r.store.eventsPath = <<id>>
     /\ r.dir.active = <<File(TRUE, r.state)>>
     /\ DOMAIN r.dir.logs = DOMAIN before.logs \cup {id} /\ id \notin DOMAIN before.logs
     /\ \A k \in DOMAIN before.logs : r.dir.logs[k] = before.logs[k]
     /\ Len(r.dir.logs[id]) = 1 /\ r.dir.logs[id][1].action = "SESSION_START"

\* C21: whenever the application is stopped with an active.json and no
\* continue.flag, initSession() adds exactly one snapshot file, which holds
\* what active.json held, keeps the older snapshots, writes a root-only state
\* to active.json whose sessionId is the store's new session id, and makes a
\* new events.log that holds a SESSION_START line
C21_ArchiveAndStartFresh ==
  (phase = "stopped" /\ dir.active # <<>> /\ ~dir.flag) =>
    LET r == initSession(dir, NewStore, clock)
        new == DOMAIN r.dir.snapshots \ DOMAIN dir.snapshots
    IN /\ Cardinality(new) = 1
       /\ \A n \in new : r.dir.snapshots[n] = dir.active[1]
       /\ \A n \in DOMAIN dir.snapshots :
            n \in DOMAIN r.dir.snapshots /\ r.dir.snapshots[n] = dir.snapshots[n]
       /\ FreshSession(dir, r)

\* the second start within one second: the snapshot and the session are both
\* named with the suffix 1, the snapshot holds the state the first run left,
\* and the session is fresh
C21_Witness ==
  /\ phase = "running" /\ runs = 2
  /\ session.sessionId = <<Name(clock, 1)>>
  /\ DOMAIN dir.snapshots = {Name(clock, 0), Name(clock, 1)}
  /\ dir.snapshots[Name(clock, 1)].complete
  /\ dir.snapshots[Name(clock, 1)].data.sessionId = Name(clock, 0)
  /\ RootOnly(state, Name(clock, 1))
  /\ dir.active = <<File(TRUE, state)>>
  /\ Len(dir.logs[Name(clock, 1)]) = 1

\* C23: whenever the application is stopped with continue.flag and an
\* active.json that is missing or cannot be parsed, initSession() throws
\* nothing, returns a root-only state under an id that owned no log, writes it
\* to active.json, logs SESSION_START in the new log, and leaves no continue.flag
C23_ResumeFallsBack ==
  (phase = "stopped" /\ dir.flag /\ ~readable(dir.active)) =>
    LET r == initSession(dir, NewStore, clock)
    IN /\ FreshSession(dir, r)
       /\ ~r.dir.flag

\* the first start has found continue.flag and an active.json that cannot be
\* parsed: it has warned, archived the file, and started a fresh session
C23_Witness ==
  /\ phase = "running" /\ runs = 1 /\ RestoreFailed \in warned
  /\ \E n \in DOMAIN dir.snapshots : ~dir.snapshots[n].complete
  /\ ~dir.flag
  /\ RootOnly(state, session.sessionId[1])
  /\ dir.active = <<File(TRUE, state)>>

\* the snapshots a caller can restore: the files that can be read
ReadableSnapshots == {id \in DOMAIN dir.snapshots : dir.snapshots[id].complete}

\* C24: while the application runs, restoreToSnapshot of a snapshot that can
\* be read returns a state with the rootId and the nodes of the snapshot, the
\* focus on that root and both stacks empty, and active.json holds that
\* state; what active.json held before is a snapshot file now, and the older
\* snapshots are kept
C24_RestoreBuildsFromSnapshot ==
  phase = "running" =>
    \A id \in ReadableSnapshots :
      LET r == restoreToSnapshot(dir, session, clock, id)
          snap == dir.snapshots[id].data
      IN /\ r.error = NoError
         /\ r.state.rootId = snap.rootId /\ r.state.nodes = snap.nodes
         /\ r.state.focusedNodeId = snap.rootId
         /\ r.state.undoStack = <<>> /\ r.state.redoStack = <<>>
         /\ r.dir.active = <<File(TRUE, r.state)>>
         /\ dir.active # <<>> =>
              \E n \in DOMAIN r.dir.snapshots \ DOMAIN dir.snapshots :
                r.dir.snapshots[n] = dir.active[1]
         /\ \A n \in DOMAIN dir.snapshots :
              n \in DOMAIN r.dir.snapshots /\ r.dir.snapshots[n] = dir.snapshots[n]

\* a snapshot with the focus on a task and an undo entry has been restored:
\* the machine holds its nodes with the focus on the root and no history,
\* active.json holds that, and the log ends with SESSION_RESTORED_FROM
C24_Witness ==
  /\ phase = "running"
  /\ \E id \in ReadableSnapshots :
       LET snap == dir.snapshots[id].data
           lines == dir.logs[session.eventsPath[1]]
       IN /\ snap.focusedNodeId # snap.rootId /\ snap.undoStack # <<>>
          /\ state.nodes = snap.nodes /\ state.focusedNodeId = snap.rootId
          /\ state.undoStack = <<>> /\ state.redoStack = <<>>
          /\ dir.active = <<File(TRUE, state)>>
          /\ lines[Len(lines)].action = "SESSION_RESTORED_FROM"
          /\ lines[Len(lines)].title = RestoredFromTitle(id)

\* C25: while the application runs, restoreToSnapshot of a snapshot that can
\* be read gives the store a session id that owns no events.log yet
C25_RestoreAllocatesFreshId ==
  phase = "running" =>
    \A id \in ReadableSnapshots :
      LET r == restoreToSnapshot(dir, session, clock, id)
      IN r.store.sessionId[1] \notin DOMAIN dir.logs

\* one events.log holds the SESSION_START of a session, then the
\* SESSION_RESTORED_FROM of a restore, then the ADD_CHILD of a command issued
\* after the restore
C25_Witness ==
  /\ phase = "running"
  /\ LET lines == dir.logs[session.eventsPath[1]]
     IN /\ Len(lines) = 3
        /\ lines[1].action = "SESSION_START"
        /\ lines[2].action = "SESSION_RESTORED_FROM"
        /\ lines[3].action = "ADD_CHILD"

\* C26: while the application runs, after AppController.restoreSession of a
\* snapshot that can be read the machine holds the snapshot's nodes with the
\* focus on the root and the store's session id; undo() and redo() leave that
\* state as it is; and an addChild issued next is applied to the restored
\* tree, with the restored nodes as its undo entry, and is logged in the
\* store's log
C26_RestoreReplacesMachine ==
  phase = "running" =>
    \A id \in ReadableSnapshots :
      LET r == ControllerRestoreSession(dir, session, state, clock, id)
          snap == dir.snapshots[id].data
          a == SessionAddChild(r.dir, r.store, r.state, r.state.rootId)
      IN /\ r.error = NoError
         /\ r.state.nodes = snap.nodes /\ r.state.rootId = snap.rootId
         /\ r.state.focusedNodeId = snap.rootId
         /\ r.state.sessionId = r.store.sessionId[1]
         /\ undo(r.state).state = r.state
         /\ redo(r.state).state = r.state
         /\ a.error = NoError
         /\ Len(a.state.undoStack) = 1 /\ Top(a.state.undoStack).nodes = snap.nodes
         /\ \A n \in DOMAIN snap.nodes \ {snap.rootId} : a.state.nodes[n] = snap.nodes[n]
         /\ Cardinality(DOMAIN a.state.nodes) = Cardinality(DOMAIN snap.nodes) + 1
         /\ a.state.sessionId = r.state.sessionId
         /\ a.store.pendingState = <<a.state>>
         /\ Top(a.dir.logs[r.store.eventsPath[1]]).action = "ADD_CHILD"

\* a snapshot with a task has been restored and a task has been added after
\* it: the undo entry holds the snapshot's nodes, and the log holds ADD_CHILD
\* after SESSION_RESTORED_FROM
C26_Witness ==
  /\ phase = "running"
  /\ Len(state.undoStack) = 1
  /\ \E id \in ReadableSnapshots :
       /\ Top(state.undoStack).nodes = dir.snapshots[id].data.nodes
       /\ Cardinality(DOMAIN dir.snapshots[id].data.nodes) = 2
  /\ LET lines == dir.logs[session.eventsPath[1]]
     IN /\ Len(lines) >= 2
        /\ lines[Len(lines) - 1].action = "SESSION_RESTORED_FROM"
        /\ lines[Len(lines)].action = "ADD_CHILD"
  /\ Cardinality(DOMAIN state.nodes) = 3
  /\ state.sessionId = session.sessionId[1]

\* C30: while the application runs, AppController.restoreSession of a
\* snapshot that is missing or cannot be parsed throws, the machine's state
\* is as it was, the store has the session id and the eventsPath it had and
\* no log has changed; an addChild issued next gives the state it would have
\* given without the restore and is logged in the same log
C30_FailedRestoreKeepsSession ==
  phase = "running" =>
    \A id \in SnapshotIds \ ReadableSnapshots :
      LET r == ControllerRestoreSession(dir, session, state, clock, id)
          a == SessionAddChild(r.dir, r.store, r.state, r.state.rootId)
          b == SessionAddChild(dir, session, state, state.rootId)
      IN /\ r.error # NoError
         /\ r.state = state
         /\ r.store.sessionId = session.sessionId
         /\ r.store.eventsPath = session.eventsPath
         /\ r.dir.logs = dir.logs
         /\ a.error = NoError
         /\ a.state = b.state
         /\ a.dir.logs = b.dir.logs
         /\ a.store.pendingState = <<a.state>>

\* a restore has failed and a task has been added after it: active.json is
\* gone to the snapshots, the machine holds the task with the state pending,
\* and the session's log holds SESSION_START and ADD_CHILD
C30_Witness ==
  /\ phase = "running" /\ runs >= 2
  /\ dir.active = <<>>
  /\ session.pendingState = <<state>> /\ Len(state.undoStack) = 1
  /\ LET lines == dir.logs[session.eventsPath[1]]
     IN Len(lines) = 2 /\ lines[1].action = "SESSION_START" /\ lines[2].action = "ADD_CHILD"

\* the session id of the one run of SpecApp
AppSessionId == Name(0, 0)

\* the sessions folder that the one run of SpecApp leaves when it stops now:
\* active.json as it is on the disk, the state in it with its sessionId,
\* continue.flag if saveSession has passed markContinue, and the session's log
FolderLeft ==
  [ active |-> IF disk.active = <<>> THEN <<>>
               ELSE <<File(disk.active[1].complete,
                           withSession(disk.active[1].data, AppSessionId))>>,
    flag |-> \E i \in DOMAIN queue :
               queue[i].cmd = "saveSession" /\ queue[i].pc \in {"appendEvent", "fulfilled"},
    snapshots |-> <<>>,
    logs |-> (AppSessionId :> log) ]

\* C22: once saveSession() and shutdown() are both fulfilled, the
\* initSession() of the next start returns the machine's state with the
\* session's id, makes no snapshot, appends SESSION_RESUME to the session's
\* log and leaves no continue.flag
C22_ResumeAfterSaveAndShutdown ==
  (/\ \E i \in DOMAIN queue : queue[i].cmd = "saveSession" /\ queue[i].pc = "fulfilled"
   /\ \E i \in DOMAIN queue : queue[i].cmd = "shutdown" /\ queue[i].pc = "fulfilled")
    => LET r == initSession(FolderLeft, NewStore, 1)
       IN /\ r.error = NoError
          /\ r.state = withSession(state, AppSessionId)
          /\ r.dir.snapshots = FolderLeft.snapshots
          /\ DOMAIN r.dir.logs = {AppSessionId}
          /\ r.dir.logs[AppSessionId] =
               Append(log, Event("SESSION_RESUME", state.rootId, NullId, SessionResumeTitle, NullId))
          /\ ~r.dir.flag

\* saveSession(), addChild() and shutdown() are fulfilled with no file
\* operation failed and continue.flag written, while the timer callback's
\* writeStateNow has not opened its file: the next start resumes the session
\* from an active.json that lacks the task
C22_Witness ==
  /\ faults = 0
  /\ FolderLeft.flag
  /\ \A i \in DOMAIN queue : queue[i].pc = "fulfilled"
  /\ \E i \in DOMAIN queue : queue[i].cmd = "shutdown"
  /\ \E w \in DOMAIN writers : writers[w].by = 0 /\ writers[w].pc = "open"
  /\ LET r == initSession(FolderLeft, NewStore, 1)
     IN /\ r.error = NoError
        /\ r.state.sessionId = AppSessionId
        /\ Cardinality(DOMAIN r.state.nodes) < Cardinality(DOMAIN state.nodes)

\* C31: in every reachable state focusNode(n) on an active node n gives the
\* state with focusedNodeId = n and nothing else changed: nodes, undoStack and
\* redoStack are as they were; and after an undo() and a focusNode, redo()
\* still gives the nodes the undone command had produced
C31_FocusOnlyMovesFocus ==
  /\ \A n \in Ids :
       assertNode(state, n) =>
         LET r == focusNode(state, n)
         IN /\ r.error = NoError
            /\ r.state = [state EXCEPT !.focusedNodeId = n]
            /\ r.state.nodes = state.nodes
            /\ r.state.undoStack = state.undoStack
            /\ r.state.redoStack = state.redoStack
  /\ state.undoStack # <<>> =>
       LET undone == undo(state).state
       IN \A n \in Ids :
            assertNode(undone, n) =>
              LET redone == redo(focusNode(undone, n).state).state
              IN /\ redone.nodes = state.nodes
                 /\ redone.focusedNodeId = state.focusedNodeId
                 /\ Len(redone.undoStack) = Len(state.undoStack)
                 /\ redone.redoStack = state.redoStack

\* the focus is on the root while the entry to redo holds a task that the
\* tree does not hold: a command was undone and the focus moved
C31_Witness ==
  /\ Len(state.redoStack) = 1 /\ Len(state.undoStack) = 1
  /\ state.focusedNodeId = state.rootId
  /\ Cardinality(DOMAIN state.nodes) = 2
  /\ Top(state.redoStack).focusedNodeId \notin DOMAIN state.nodes

\* C32: in every reachable state with an empty undoStack undo() returns the
\* state as it is, and with an empty redoStack redo() returns the state as
\* it is
C32_EmptyStackNoOp ==
  /\ state.undoStack = <<>> => undo(state) = Result(NoError, state, NullId)
  /\ state.redoStack = <<>> => redo(state) = Result(NoError, state, NullId)

\* nothing is left to undo while there is something to redo
C32_Witness ==
  /\ state.undoStack = <<>> /\ Len(state.redoStack) = 2
  /\ Cardinality(DOMAIN state.nodes) = 1

\* C33: in every reachable state addSibling(n, t) on an active node n gives
\* what addChild(p, t) gives, p being n's parent or the root when n is the
\* root, and that is no error; on a node that is missing or soft-deleted it
\* gives NodeNotFound and the state as it is
C33_SiblingIsChildOfParent ==
  \A n \in Ids, t \in NewTitles :
    LET r == addSibling(state, n, t)
    IN IF assertNode(state, n)
       THEN LET p == IF n = state.rootId THEN state.rootId ELSE state.nodes[n].parentId
            IN r = addChild(state, p, t) /\ r.error = NoError
                 /\ r.state.nodes[r.value].parentId = p
       ELSE r = Result(NodeNotFound, state, NullId)

\* a task below the root has two tasks below it
C33_Witness ==
  \E n \in ActiveIds(state) :
    /\ n # state.rootId
    /\ Len(state.nodes[n].childrenIds) = 2

\* the nodes reached from n through childrenIds
RECURSIVE ReachedFrom(_, _)
ReachedFrom(s, n) ==
  {n} \cup UNION {ReachedFrom(s, c) : c \in Range(s.nodes[n].childrenIds)}

\* C37: in every reachable state the nodes reached from the root through
\* childrenIds are the active nodes; every active node but the root has an
\* active parent and occurs once in its childrenIds; and the childrenIds of
\* an active node name active nodes only
C37_ChildrenAreTheActiveTree ==
  /\ ReachedFrom(state, state.rootId) = ActiveIds(state)
  /\ \A n \in ActiveIds(state) \ {state.rootId} :
       LET p == state.nodes[n].parentId
       IN /\ p \in ActiveIds(state)
          /\ Cardinality({i \in DOMAIN state.nodes[p].childrenIds :
                            state.nodes[p].childrenIds[i] = n}) = 1
  /\ \A n \in ActiveIds(state) :
       Range(state.nodes[n].childrenIds) \subseteq ActiveIds(state)

\* a task with a task below it has been deleted, and another task is active
C37_Witness ==
  /\ \E d \in DeletedIds(state) :
       /\ state.nodes[d].childrenIds # <<>>
       /\ state.nodes[d].parentId = state.rootId
  /\ state.nodes[state.rootId].childrenIds = <<>>
  /\ Len(state.undoStack) = 3

\* C36: in every reachable state undoStack and redoStack hold at most
\* MAX_HISTORY entries together; undo() and redo() leave that total as it
\* is; and a mutating command leaves the redoStack empty and the undoStack
\* one longer, up to MAX_HISTORY
C36_HistoryTotalCapped ==
  LET total(s) == Len(s.undoStack) + Len(s.redoStack)
  IN /\ total(state) <= MAX_HISTORY
     /\ total(undo(state).state) = total(state)
     /\ total(redo(state).state) = total(state)
     /\ \A n \in Range(state.nodes[state.rootId].childrenIds), t \in RenameTitles :
          LET r == renameNode(state, n, t).state
          IN /\ r.redoStack = <<>>
             /\ Len(r.undoStack) = IF Len(state.undoStack) < MAX_HISTORY
                                   THEN Len(state.undoStack) + 1 ELSE MAX_HISTORY

\* the stacks hold MAX_HISTORY entries together, some of them to redo
C36_Witness ==
  /\ Len(state.undoStack) + Len(state.redoStack) = MAX_HISTORY
  /\ Len(state.redoStack) >= 2 /\ Len(state.undoStack) >= 2

\* C34: in every step, whether a command, saveSession, a start that resumes
\* or archives, a restore or a quit, every events.log that exists is still
\* there afterwards and what it held is a prefix of what it holds
C34_LogsAppendOnly ==
  [][\A id \in DOMAIN dir.logs :
       /\ id \in DOMAIN dir'.logs
       /\ Len(dir'.logs[id]) >= Len(dir.logs[id])
       /\ SubSeq(dir'.logs[id], 1, Len(dir.logs[id])) = dir.logs[id]]_vars

\* a session was started, saved and resumed by the next start, and a task
\* was added then: its log holds the four lines in that order
C34_Witness ==
  \E id \in DOMAIN dir.logs :
    /\ Len(dir.logs[id]) = 4
    /\ dir.logs[id][1].action = "SESSION_START"
    /\ dir.logs[id][2].action = "SESSION_SAVE"
    /\ dir.logs[id][3].action = "SESSION_RESUME"
    /\ dir.logs[id][4].action = "ADD_CHILD"

\* C35: in every reachable state with an active.json, archivePreviousActive
\* leaves no active.json, adds one snapshot file, which holds what
\* active.json held, and leaves every snapshot there was under its name with
\* its content
C35_ArchiveKeepsSnapshots ==
  dir.active # <<>> =>
    LET d == archivePreviousActive(dir, clock)
        new == DOMAIN d.snapshots \ DOMAIN dir.snapshots
    IN /\ d.active = <<>>
       /\ Cardinality(new) = 1
       /\ \A n \in new : d.snapshots[n] = dir.active[1]
       /\ DOMAIN dir.snapshots \subseteq DOMAIN d.snapshots
       /\ \A n \in DOMAIN dir.snapshots : d.snapshots[n] = dir.snapshots[n]
       /\ d.flag = dir.flag /\ d.logs = dir.logs

\* three archivals within one second: the snapshots are named with no
\* suffix, -1 and -2 and hold three files
C35_Witness ==
  /\ DOMAIN dir.snapshots = {Name(clock, 0), Name(clock, 1), Name(clock, 2)}
  /\ dir.snapshots[Name(clock, 0)] # dir.snapshots[Name(clock, 1)]
  /\ dir.snapshots[Name(clock, 1)] # dir.snapshots[Name(clock, 2)]
  /\ dir.snapshots[Name(clock, 0)] # dir.snapshots[Name(clock, 2)]

\* C40: while the application runs with an active.json on the disk once the
\* pending state is flushed, AppController.restoreSession of a snapshot id
\* that names no file leaves that active.json and leaves continue.flag
\* there or not there as it was
C40_FailedRestoreLeavesFiles ==
  LET f == flushNow(dir, session)
  IN (phase = "running" /\ f.dir.active # <<>>) =>
       \A id \in SnapshotIds \ DOMAIN dir.snapshots :
         LET r == ControllerRestoreSession(dir, session, state, clock, id)
         IN /\ r.error # NoError
            /\ r.dir.active = f.dir.active
            /\ r.dir.flag = dir.flag

\* the session was saved and a restore of a missing snapshot has failed
\* after that: SESSION_SAVE is the last line of the log, and neither
\* active.json nor continue.flag is there
C40_Witness ==
  /\ phase = "running"
  /\ dir.active = <<>> /\ ~dir.flag
  /\ session.pendingState = <<>>
  /\ Top(dir.logs[session.eventsPath[1]]).action = "SESSION_SAVE"
  /\ \E n \in DOMAIN dir.snapshots :
       dir.snapshots[n].complete /\ dir.snapshots[n].data = state

\* the commands a state is after: under SpecApp every command that changes
\* the state adds one node
Applied(s) == Cardinality(DOMAIN s.nodes) - 1

\* C38: after every step active.json is a file written to its end, and it
\* holds a state after no fewer commands than the state it held before the step
C38_ActiveNeverGoesBack ==
  [][/\ disk'.active # <<>>
     /\ disk'.active[1].complete
     /\ (disk.active # <<>> /\ disk.active[1].complete) =>
          Applied(disk'.active[1].data) >= Applied(disk.active[1].data)]_vars

\* with no file operation failed and no saveSession or shutdown issued, the
\* writeStateNow of the first timer has written its state into the file that
\* the writeStateNow of the second timer had made active.json: the file holds
\* the state after the first command while the machine is after the second
C38_Witness ==
  /\ faults = 0 /\ warned = {}
  /\ \A i \in DOMAIN queue : queue[i].cmd = "addChild" /\ queue[i].pc = "fulfilled"
  /\ Applied(state) = 2
  /\ Len(writers) = 1
  /\ writers[1].by = 0 /\ writers[1].fd = "active" /\ writers[1].pc = "rename"
  /\ Applied(writers[1].data) = 1
  /\ disk.active = <<File(TRUE, writers[1].data)>>

\* every command issued is settled, no timer is armed, no write is in
\* progress and none has failed
Quiescent ==
  /\ \A i \in DOMAIN queue : settled(queue[i]) /\ queue[i].cmd \notin SessionCommands
  /\ writers = <<>> /\ store.timers = 0
  /\ faults = 0 /\ StateWriteFailed \notin warned

\* C39: once the tree commands issued are settled, the timers have fired and
\* their writes have returned, none of them failed, active.json holds the
\* state scheduled last, and neither a timer nor a pending state is left
C39_SettlesOnLastState ==
  Quiescent => Synced(disk, store, state)

\* two tasks were added, both timers have fired and both writes have
\* returned without a failure: active.json holds the state with one task
C39_Witness ==
  /\ Quiescent
  /\ Applied(state) = 2
  /\ store.pendingState = <<>> /\ ~store.flushTimer
  /\ disk.tmp = <<>>
  /\ disk.active # <<>> /\ disk.active[1].complete
  /\ Applied(disk.active[1].data) = 1

====
